---- MODULE Spec2Model ----
(***************************************************************************)
(* State-machine model of the MultiChat front-end (multiChat/multiChat.py  *)
(* and multiChat/__init__.py): one MultiChatWS object, its QWebSocket and  *)
(* its QTimer, driven by the Qt event loop one callback at a time.         *)
(*                                                                         *)
(* Text is a sequence of one-character strings (fixed notices are kept as  *)
(* one chunk).  A websocket text frame is JSON text: it is modelled by     *)
(* its parse tree, [form |-> "invalid"] standing for text that is not      *)
(* JSON.  Every handler is an operator from the object state before the    *)
(* call to the object state after it; `out` collects what the handler did  *)
(* to the outside world (logger, utils.tell, QWebSocket), in order.        *)
(***************************************************************************)
EXTENDS Naturals, Sequences, FiniteSets, TLC

VARIABLES
    config,          \* the dict json.load returned in load()
    plugin,          \* whether core.get_plugin('mcBasicLib') returns a plugin
    status,          \* "unloaded" | "running" | "disabled" | "failed"
    url,             \* self.url
    key,             \* self.key
    server_name,     \* self.server_name
    do_listen,       \* self.do_listen
    do_post,         \* self.do_post
    ignore_prefix,   \* self.ignore_prefix
    lang,            \* self.lang
    ws_valid,        \* self.ws_valid
    retry_interval,  \* self.retry_interval
    timer_active,    \* self.retry_timer.isActive()
    timer_interval,  \* self.retry_timer.interval()
    sock,            \* self.ws.state(): "unconnected" | "connecting" | "connected"
    step,            \* the callback the event loop ran last, with its argument
    out,             \* what that callback did: log / tell / ws_open / ws_send
    raised,          \* the exception that left that callback, or "none"
    acked,           \* history: register-ack received since the last connected/disconnected
    closes,          \* history: disconnections since the last register-ack (saturating)
    sends_valid,     \* history: send_msg calls made while ws_valid
    cm_writes,       \* history: client-message frames handed to the websocket
    wire             \* history: actions of the frames written since the last ws.open

vars == << config, plugin, status, url, key, server_name, do_listen, do_post,
           ignore_prefix, lang, ws_valid, retry_interval, timer_active,
           timer_interval, sock, step, out, raised, acked, closes,
           sends_valid, cm_writes, wire >>

----------------------------------------------------------------------------
(* Program constants *)

RETRY_INTERVAL_MIN == 5000

RETRY_INTERVAL_MAX == 3600 * 1000

SUPPORTED_LANGUAGES == {"en", "zh-cn"}

(* Bounds of the model *)

MaxSends == 2

MaxCloses == 12

----------------------------------------------------------------------------
(* Text *)

Digits == << "0", "1", "2", "3", "4", "5", "6", "7", "8", "9" >>

RECURSIVE str(_)
str(n) == IF n < 10 THEN << Digits[n + 1] >>
          ELSE str(n \div 10) \o << Digits[(n % 10) + 1] >>

min(a, b) == IF a <= b THEN a ELSE b

startswith(text, prefix) ==
    /\ Len(prefix) <= Len(text)
    /\ SubSeq(text, 1, Len(prefix)) = prefix

RECURSIVE rstrip(_, _)
rstrip(text, ch) ==
    IF text # << >> /\ text[Len(text)] = ch
    THEN rstrip(SubSeq(text, 1, Len(text) - 1), ch)
    ELSE text

CMD_CONNECT == << "!", "m", "u", "l", "t", "i", "c", "h", "a", "t", " ",
                  "c", "o", "n", "n", "e", "c", "t" >>

----------------------------------------------------------------------------
(* JSON *)

json_dumps(obj) == [form |-> "json", value |-> [type |-> "object", members |-> obj]]

json_loads(message) ==
    IF message.form = "json"
    THEN [exc |-> "none", data |-> message.value]
    ELSE [exc |-> "JSONDecodeError"]

(* data[k] of Python: the exception it raises, or "none" *)
getitem_exc(data, k) ==
    IF data.type # "object" THEN "TypeError"
    ELSE IF k \notin DOMAIN data.members THEN "KeyError"
    ELSE "none"

getitem(data, k) == data.members[k]

----------------------------------------------------------------------------
(* The object state a handler reads and writes *)

Self == [ ws_valid |-> ws_valid, retry_interval |-> retry_interval,
          timer_active |-> timer_active, timer_interval |-> timer_interval,
          sock |-> sock, url |-> url, out |-> << >>, raised |-> "none",
          sends_valid |-> sends_valid, cm_writes |-> cm_writes ]

FrameAction(data) == data.value.members["action"]

(* the frames handed to the websocket since it was last opened, after the
   calls in o *)
RECURSIVE WireAfter(_, _)
WireAfter(w, o) ==
    IF o = << >> THEN w
    ELSE LET e == Head(o)
         IN  WireAfter(IF e.kind = "ws_open" THEN << >>
                       ELSE IF e.kind = "ws_send" THEN Append(w, FrameAction(e.data))
                       ELSE w,
                       Tail(o))

Commit(s) ==
    /\ ws_valid' = s.ws_valid
    /\ retry_interval' = s.retry_interval
    /\ timer_active' = s.timer_active
    /\ timer_interval' = s.timer_interval
    /\ sock' = s.sock
    /\ out' = s.out
    /\ raised' = s.raised
    /\ sends_valid' = s.sends_valid
    /\ cm_writes' = s.cm_writes
    /\ wire' = WireAfter(wire, s.out)

Emit(s, e) == [s EXCEPT !.out = Append(@, e)]

Log(s, level, text) == Emit(s, [kind |-> "log", level |-> level, text |-> text])

Tell(s, to, text) == Emit(s, [kind |-> "tell", to |-> to, text |-> text])

Raise(s, exc) == [s EXCEPT !.raised = exc]

(* QWebSocket.open: any socket still held is dropped with its signals
   disconnected, and a new connection attempt begins *)
ws_open(s, u) ==
    [Emit(s, [kind |-> "ws_open", url |-> u]) EXCEPT !.sock = "connecting"]

ws_sendTextMessage(s, data) == Emit(s, [kind |-> "ws_send", data |-> data])

timer_stop(s) == [s EXCEPT !.timer_active = FALSE]

timer_setInterval(s, ms) == [s EXCEPT !.timer_interval = ms]

timer_start(s) == [s EXCEPT !.timer_active = TRUE]

LogData(s, level, text, data) ==
    Emit(s, [kind |-> "log", level |-> level, text |-> text, data |-> data])

----------------------------------------------------------------------------
(* Methods of MultiChatWS *)

post(s, message) ==
    Emit(s, [kind |-> "tell", to |-> "@a", text |-> message, color |-> "#777777"])

IsClientMessage(data) ==
    /\ data.form = "json"
    /\ data.value.type = "object"
    /\ "action" \in DOMAIN data.value.members
    /\ data.value.members["action"] = "client-message"

(* the call self.ws.sendTextMessage(data) made by send_msg *)
send_frame(s, data) ==
    [ws_sendTextMessage(s, data) EXCEPT
        !.cm_writes = IF IsClientMessage(data) THEN @ + 1 ELSE @]

(* mutant: the ws_valid test is dropped *)
send_msg_unguarded(s, message) ==
    LET s0 == [s EXCEPT !.sends_valid = IF s.ws_valid THEN @ + 1 ELSE @]
        obj == ("action" :> "client-message" @@ "content" :> message)
        data == json_dumps(obj)
    IN  send_frame(LogData(s0, "debug", << "WebSocket sending: " >>, data), data)

(* mutant: a dropped send starts the retry timer *)
send_msg_restarts(s, message) ==
    LET s0 == [s EXCEPT !.sends_valid = IF s.ws_valid THEN @ + 1 ELSE @]
        obj == ("action" :> "client-message" @@ "content" :> message)
        data == json_dumps(obj)
    IN  IF s0.ws_valid
        THEN send_frame(LogData(s0, "debug", << "WebSocket sending: " >>, data), data)
        ELSE timer_start(Log(s0, "warning",
                             << "Tried to write websocket when not available" >>))

send_msg(s, message) ==
    LET s0 == [s EXCEPT !.sends_valid = IF s.ws_valid THEN @ + 1 ELSE @]
        obj == ("action" :> "client-message" @@ "content" :> message)
        data == json_dumps(obj)
    IN  IF s0.ws_valid
        THEN send_frame(LogData(s0, "debug", << "WebSocket sending: " >>, data), data)
        ELSE Log(s0, "warning", << "Tried to write websocket when not available" >>)

client_name == IF server_name # << >> THEN << "M", "C", "-" >> \o server_name
               ELSE << "M", "C" >>

(* mutant: the client name is 'MC-' + server_name even when no name is set *)
on_connected_always_prefixed(s) ==
    LET s1 == Log(s, "info", << "Successfully connected to: " >> \o s.url)
        register_obj == ( "action" :> "register"
                          @@ "client-name" :> (<< "M", "C", "-" >> \o server_name)
                          @@ "secret-key" :> key )
        register_str == json_dumps(register_obj)
        s2 == LogData(s1, "debug", << "WebSocket sending:  " >>, register_str)
    IN  ws_sendTextMessage(s2, register_str)

on_connected(s) ==
    LET s1 == Log(s, "info", << "Successfully connected to: " >> \o s.url)
        register_obj == ( "action" :> "register"
                          @@ "client-name" :> client_name
                          @@ "secret-key" :> key )
        register_str == json_dumps(register_obj)
        s2 == LogData(s1, "debug", << "WebSocket sending:  " >>, register_str)
    IN  ws_sendTextMessage(s2, register_str)

broken_notice(ms) == << "multichat connection broken, retry after " >> \o str(ms) \o << "ms" >>

(* mutant: ws_valid is not cleared *)
on_connection_broken_keeps_valid(s) ==
    LET s1 == Log(s, "info", << "Connection broken, retry after " >>
                                 \o str(s.retry_interval) \o << "ms" >>)
        s2 == Tell(s1, "@a", broken_notice(s1.retry_interval))
        s4 == timer_setInterval(s2, s2.retry_interval)
        s5 == timer_start(s4)
    IN  [s5 EXCEPT !.retry_interval = min(RETRY_INTERVAL_MAX, s5.retry_interval * 2)]

(* mutant: the doubling is not capped *)
on_connection_broken_uncapped(s) ==
    LET s1 == Log(s, "info", << "Connection broken, retry after " >>
                                 \o str(s.retry_interval) \o << "ms" >>)
        s2 == Tell(s1, "@a", broken_notice(s1.retry_interval))
        s3 == [s2 EXCEPT !.ws_valid = FALSE]
        s4 == timer_setInterval(s3, s3.retry_interval)
        s5 == timer_start(s4)
    IN  [s5 EXCEPT !.retry_interval = s5.retry_interval * 2]

(* mutant: past the maximum the interval starts over from the minimum *)
on_connection_broken_wraps(s) ==
    LET s1 == Log(s, "info", << "Connection broken, retry after " >>
                                 \o str(s.retry_interval) \o << "ms" >>)
        s2 == Tell(s1, "@a", broken_notice(s1.retry_interval))
        s3 == [s2 EXCEPT !.ws_valid = FALSE]
        s4 == timer_setInterval(s3, s3.retry_interval)
        s5 == timer_start(s4)
    IN  [s5 EXCEPT !.retry_interval = IF s5.retry_interval * 2 > RETRY_INTERVAL_MAX
                                      THEN RETRY_INTERVAL_MIN
                                      ELSE s5.retry_interval * 2]

(* mutant: the interval is advanced before the timer is scheduled *)
on_connection_broken_advance_first(s) ==
    LET s1 == Log(s, "info", << "Connection broken, retry after " >>
                                 \o str(s.retry_interval) \o << "ms" >>)
        s2 == Tell(s1, "@a", broken_notice(s1.retry_interval))
        s3 == [s2 EXCEPT !.ws_valid = FALSE,
                         !.retry_interval = min(RETRY_INTERVAL_MAX, s2.retry_interval * 2)]
        s4 == timer_setInterval(s3, s3.retry_interval)
    IN  timer_start(s4)

(* mutant: the timer is given its interval but not started *)
on_connection_broken_nostart(s) ==
    LET s1 == Log(s, "info", << "Connection broken, retry after " >>
                                 \o str(s.retry_interval) \o << "ms" >>)
        s2 == Tell(s1, "@a", broken_notice(s1.retry_interval))
        s3 == [s2 EXCEPT !.ws_valid = FALSE]
        s4 == timer_setInterval(s3, s3.retry_interval)
    IN  [s4 EXCEPT !.retry_interval = min(RETRY_INTERVAL_MAX, s4.retry_interval * 2)]

on_connection_broken(s) ==
    LET s1 == Log(s, "info", << "Connection broken, retry after " >>
                                 \o str(s.retry_interval) \o << "ms" >>)
        s2 == Tell(s1, "@a", broken_notice(s1.retry_interval))
        s3 == [s2 EXCEPT !.ws_valid = FALSE]
        s4 == timer_setInterval(s3, s3.retry_interval)
        s5 == timer_start(s4)
    IN  [s5 EXCEPT !.retry_interval = min(RETRY_INTERVAL_MAX, s5.retry_interval * 2)]

(* mutant: the timer is left running *)
on_retry_timer_nostop(s) ==
    LET s2 == Log(s, "info", << "Connecting to multichat server" >>)
        s3 == Tell(s2, "@a", << "multichat: connecting to server" >>)
    IN  ws_open(s3, s.url)

(* mutant: the timer is started again instead of stopped *)
on_retry_timer_restarts(s) ==
    LET s1 == timer_start(s)
        s2 == Log(s1, "info", << "Connecting to multichat server" >>)
        s3 == Tell(s2, "@a", << "multichat: connecting to server" >>)
    IN  ws_open(s3, s.url)

on_retry_timer(s) ==
    LET s1 == timer_stop(s)
        s2 == Log(s1, "info", << "Connecting to multichat server" >>)
        s3 == Tell(s2, "@a", << "multichat: connecting to server" >>)
    IN  ws_open(s3, s.url)

(* mutant: the retry interval is not reset *)
on_recv_register_ack_noreset(s) ==
    LET s1 == Log(s, "info", << "Successfully registered." >>)
        s2 == Tell(s1, "@a", << "multichat: server connected" >>)
    IN  [s2 EXCEPT !.ws_valid = TRUE]

(* mutant: registration flushes a message kept from an earlier send *)
on_recv_register_ack_flush(s) ==
    LET s1 == Log(s, "info", << "Successfully registered." >>)
        s2 == Tell(s1, "@a", << "multichat: server connected" >>)
        s3 == [s2 EXCEPT !.ws_valid = TRUE, !.retry_interval = RETRY_INTERVAL_MIN]
    IN  send_frame(s3, json_dumps("action" :> "client-message" @@ "content" :> << "q" >>))

on_recv_register_ack(s) ==
    LET s1 == Log(s, "info", << "Successfully registered." >>)
        s2 == Tell(s1, "@a", << "multichat: server connected" >>)
    IN  [s2 EXCEPT !.ws_valid = TRUE, !.retry_interval = RETRY_INTERVAL_MIN]

on_recv_forwarding(s, data) ==
    IF getitem_exc(data, "source-client-name") # "none"
    THEN Raise(s, getitem_exc(data, "source-client-name"))
    ELSE IF getitem_exc(data, "content") # "none"
    THEN Raise(s, getitem_exc(data, "content"))
    ELSE LET source == getitem(data, "source-client-name")
             content == getitem(data, "content")
             post_str == << "[" >> \o source \o << "]" >> \o content
         IN  post(s, post_str)

(* mutant: forwarding-messages are posted whatever do_post says *)
on_recv_ignores_post(s, message) ==
    LET s1 == LogData(s, "debug", << "WebSocket received: " >>, message)
        parsed == json_loads(message)
    IN  IF parsed.exc # "none" THEN Raise(s1, parsed.exc)
        ELSE IF getitem_exc(parsed.data, "action") # "none"
        THEN Raise(s1, getitem_exc(parsed.data, "action"))
        ELSE LET action == getitem(parsed.data, "action")
                 s2 == IF action = "register-ack" THEN on_recv_register_ack(s1) ELSE s1
             IN  IF action = "forwarding-message"
                 THEN on_recv_forwarding(s2, parsed.data)
                 ELSE s2

on_recv(s, message) ==
    LET s1 == LogData(s, "debug", << "WebSocket received: " >>, message)
        parsed == json_loads(message)
    IN  IF parsed.exc # "none" THEN Raise(s1, parsed.exc)
        ELSE IF getitem_exc(parsed.data, "action") # "none"
        THEN Raise(s1, getitem_exc(parsed.data, "action"))
        ELSE LET action == getitem(parsed.data, "action")
                 s2 == IF action = "register-ack" THEN on_recv_register_ack(s1) ELSE s1
             IN  IF action = "forwarding-message" /\ do_post
                 THEN on_recv_forwarding(s2, parsed.data)
                 ELSE s2

(* mutant: the reconnect command does not look at ws_valid *)
on_player_input_unguarded(s, player, text) ==
    LET s1 == Log(s, "debug", << "MultiChat.on_player_input called" >>)
    IN  IF text = CMD_CONNECT
        THEN on_retry_timer(s1)
        ELSE IF ~do_listen THEN s1
        ELSE IF player.is_console THEN s1
        ELSE IF \E i \in 1..Len(ignore_prefix) : startswith(text, ignore_prefix[i]) THEN s1
        ELSE send_msg(s1, << "<" >> \o player.name \o << ">", " " >> \o text)

(* mutant: the ignored prefixes are not looked at *)
on_player_input_noprefix(s, player, text) ==
    LET s1 == Log(s, "debug", << "MultiChat.on_player_input called" >>)
    IN  IF text = CMD_CONNECT
        THEN IF s1.ws_valid
             THEN Tell(s1, player.name, << "multichat is already connected to server" >>)
             ELSE on_retry_timer(s1)
        ELSE IF ~do_listen THEN s1
        ELSE IF player.is_console THEN s1
        ELSE send_msg(s1, << "<" >> \o player.name \o << ">", " " >> \o text)

(* mutant: the return after the reconnect command is missing *)
on_player_input_fallthrough(s, player, text) ==
    LET s1 == Log(s, "debug", << "MultiChat.on_player_input called" >>)
        s2 == IF text # CMD_CONNECT THEN s1
              ELSE IF s1.ws_valid
              THEN Tell(s1, player.name, << "multichat is already connected to server" >>)
              ELSE on_retry_timer(s1)
    IN  IF ~do_listen THEN s2
        ELSE IF player.is_console THEN s2
        ELSE IF \E i \in 1..Len(ignore_prefix) : startswith(text, ignore_prefix[i]) THEN s2
        ELSE send_msg(s2, << "<" >> \o player.name \o << ">", " " >> \o text)

(* mutant: the reconnect command opens the socket itself, timer untouched *)
on_player_input_open_only(s, player, text) ==
    LET s1 == Log(s, "debug", << "MultiChat.on_player_input called" >>)
    IN  IF text = CMD_CONNECT
        THEN IF s1.ws_valid
             THEN Tell(s1, player.name, << "multichat is already connected to server" >>)
             ELSE ws_open(s1, s1.url)
        ELSE IF ~do_listen THEN s1
        ELSE IF player.is_console THEN s1
        ELSE IF \E i \in 1..Len(ignore_prefix) : startswith(text, ignore_prefix[i]) THEN s1
        ELSE send_msg(s1, << "<" >> \o player.name \o << ">", " " >> \o text)

on_player_input(s, player, text) ==
    LET s1 == Log(s, "debug", << "MultiChat.on_player_input called" >>)
    IN  IF text = CMD_CONNECT
        THEN IF s1.ws_valid
             THEN Tell(s1, player.name, << "multichat is already connected to server" >>)
             ELSE on_retry_timer(s1)
        ELSE IF ~do_listen THEN s1
        ELSE IF player.is_console THEN s1
        ELSE IF \E i \in 1..Len(ignore_prefix) : startswith(text, ignore_prefix[i]) THEN s1
        ELSE send_msg(s1, << "<" >> \o player.name \o << ">", " " >> \o text)

on_player_login(s, player) ==
    LET s1 == Log(s, "debug", << "MultiChat.on_player_login called" >>)
        msg == IF lang = "en" THEN player.name \o << " joined the game" >>
               ELSE player.name \o << "U+52A0 U+5165 U+4E86 U+6E38 U+620F" >>
    IN  send_msg(s1, msg)

on_player_logout(s, player) ==
    LET s1 == Log(s, "debug", << "MultiChat.on_player_logout called" >>)
        msg == IF lang = "en" THEN player.name \o << " left the game" >>
               ELSE player.name \o << "U+9000 U+51FA U+4E86 U+6E38 U+620F" >>
    IN  send_msg(s1, msg)

on_advancement(s, advc) ==
    send_msg(Log(s, "debug", << "MultiChat.on_advancement called" >>), advc[lang])

on_death(s, death_obj) ==
    send_msg(Log(s, "debug", << "MultiChat.on_death called" >>), death_obj[lang])

----------------------------------------------------------------------------
(* Inputs *)

REQUIRED_KEYS == << "multichat-url", "multichat-key", "listen", "post", "ignore-prefix" >>

BaseConfig ==
    ( "multichat-url" :> << "w", "s", ":", "/", "/", "h" >>
      @@ "multichat-key" :> << "k" >>
      @@ "listen" :> TRUE
      @@ "post" :> TRUE
      @@ "ignore-prefix" :> << << "!" >> >> )

Without(cfg, k) == [x \in DOMAIN cfg \ {k} |-> cfg[x]]

Configs ==
    { [BaseConfig EXCEPT !["listen"] = l, !["post"] = p] : l, p \in BOOLEAN }
    \cup { [BaseConfig EXCEPT !["ignore-prefix"] = << >>],
           [BaseConfig EXCEPT !["multichat-url"] = @ \o << "/", "/" >>],
           BaseConfig @@ "server-name" :> << "S" >>,
           BaseConfig @@ "server-name" :> << >>,
           BaseConfig @@ "lang" :> "zh-cn",
           BaseConfig @@ "lang" :> "fr" }
    \cup { Without(BaseConfig, REQUIRED_KEYS[i]) : i \in 1..Len(REQUIRED_KEYS) }

Players == { [name |-> << "B", "o", "b" >>, is_console |-> FALSE],
             [name |-> << "C" >>, is_console |-> TRUE] }

Texts == { CMD_CONNECT, << "h", "i" >>, << "!", "s" >>, << "!" >>,
           CMD_CONNECT \o << "!" >>,
           << "h", "e", "l", "l", "o" >>,
           << "!", "s", "e", "c", "r", "e", "t" >> }

(* an advancement or death object: what its format(lang=...) returns *)
Events == { ( "en" :> << "e", "v" >> @@ "zh-cn" :> << "z", "h" >> ) }

JsonObject(members) == [form |-> "json", value |-> [type |-> "object", members |-> members]]

Messages ==
    { [form |-> "invalid"],
      [form |-> "json", value |-> [type |-> "array"]],
      [form |-> "json", value |-> [type |-> "number"]],
      JsonObject(<< >>),
      JsonObject("content" :> << "x" >>),
      JsonObject("action" :> "register-ack"),
      JsonObject("action" :> "register-ack" @@ "extra" :> << "x" >>),
      JsonObject("action" :> "client-message" @@ "content" :> << "x" >>),
      JsonObject("action" :> "forwarding-message"
                 @@ "source-client-name" :> << "H", "u", "b", "1" >>
                 @@ "content" :> << "h", "i" >>),
      JsonObject("action" :> "forwarding-message" @@ "content" :> << "h", "i" >>),
      JsonObject("action" :> "forwarding-message"
                 @@ "source-client-name" :> << "H", "u", "b", "1" >>),
      JsonObject("action" :> "forwarding-message") }

IsRegisterAck(message) ==
    /\ message.form = "json"
    /\ message.value.type = "object"
    /\ "action" \in DOMAIN message.value.members
    /\ message.value.members["action"] = "register-ack"

----------------------------------------------------------------------------
(* Initial state: the host is about to call load(logger, core) *)

Init ==
    /\ config \in Configs
    /\ plugin \in BOOLEAN
    /\ status = "unloaded"
    /\ url = << >>
    /\ key = << >>
    /\ server_name = << >>
    /\ do_listen = FALSE
    /\ do_post = FALSE
    /\ ignore_prefix = << >>
    /\ lang = "en"
    /\ ws_valid = FALSE
    /\ retry_interval = 0
    /\ timer_active = FALSE
    /\ timer_interval = 0
    /\ sock = "unconnected"
    /\ step = [op |-> "none"]
    /\ out = << >>
    /\ raised = "none"
    /\ acked = FALSE
    /\ closes = 0
    /\ sends_valid = 0
    /\ cm_writes = 0
    /\ wire = << >>

Fields == << url, key, server_name, do_listen, do_post, ignore_prefix, lang >>

MissingKey == \E i \in 1..Len(REQUIRED_KEYS) : REQUIRED_KEYS[i] \notin DOMAIN config

(* load() and MultiChatWS.__init__ *)
LoadFails ==
    /\ status = "unloaded"
    /\ MissingKey
    /\ status' = "failed"
    /\ step' = [op |-> "load"]
    /\ Commit(Raise(Self, "KeyError"))
    /\ UNCHANGED << config, plugin, Fields, acked, closes >>

normalized_url(cfg) == rstrip(cfg["multichat-url"], "/") \o << "/" >>

SetFields ==
    /\ url' = normalized_url(config)
    /\ key' = config["multichat-key"]
    /\ server_name' = IF "server-name" \in DOMAIN config THEN config["server-name"] ELSE << >>
    /\ do_listen' = config["listen"]
    /\ do_post' = config["post"]
    /\ ignore_prefix' = config["ignore-prefix"]
    /\ lang' = IF "lang" \in DOMAIN config /\ config["lang"] \in SUPPORTED_LANGUAGES
               THEN config["lang"] ELSE "en"

LangWarning(s) ==
    IF "lang" \in DOMAIN config /\ config["lang"] \notin SUPPORTED_LANGUAGES
    THEN Log(s, "warning", << "Not supported language: ", config["lang"] >>)
    ELSE s

LoadDisabled ==
    /\ status = "unloaded"
    /\ ~MissingKey
    /\ ~plugin
    /\ SetFields
    /\ status' = "disabled"
    /\ step' = [op |-> "load"]
    /\ Commit(Log(Log(LangWarning(Self), "error",
            << "Failed to load plugin \"mcBasicLib\", multiChat will be disabled." >>),
            "error", << "Please make sure that \"mcBasicLib\" has been added to plugins." >>))
    /\ UNCHANGED << config, plugin, acked, closes >>

init_connect(s) ==
    on_retry_timer([s EXCEPT !.url = normalized_url(config),
                             !.ws_valid = FALSE,
                             !.retry_interval = RETRY_INTERVAL_MIN,
                             !.timer_active = FALSE,
                             !.timer_interval = 0,
                             !.sock = "unconnected"])

Load ==
    /\ status = "unloaded"
    /\ ~MissingKey
    /\ plugin
    /\ SetFields
    /\ status' = "running"
    /\ step' = [op |-> "load"]
    /\ Commit(init_connect(LangWarning(Self)))
    /\ UNCHANGED << config, plugin, acked, closes >>

----------------------------------------------------------------------------
(* Callbacks dispatched by the event loop while the plugin runs.  The signal
   connections of __init__ decide which handler runs; QWebSocket and QTimer
   decide when a signal can be emitted. *)

Running == status = "running"

Static == << config, plugin, status, Fields >>

(* QWebSocket.connected -> on_connected *)
Connected ==
    /\ Running
    /\ sock = "connecting"
    /\ step' = [op |-> "on_connected"]
    /\ Commit(on_connected([Self EXCEPT !.sock = "connected"]))
    /\ acked' = FALSE
    /\ UNCHANGED << Static, closes >>

(* QWebSocket.disconnected -> on_connection_broken: a refused or failed
   attempt and the loss of an open connection both end here *)
Disconnected ==
    /\ Running
    /\ sock \in {"connecting", "connected"}
    /\ step' = [op |-> "on_connection_broken"]
    /\ Commit(on_connection_broken([Self EXCEPT !.sock = "unconnected"]))
    /\ acked' = FALSE
    /\ closes' = min(closes + 1, MaxCloses)
    /\ UNCHANGED Static

(* QWebSocket.textMessageReceived -> on_recv *)
TextMessageReceived ==
    /\ Running
    /\ sock = "connected"
    /\ \E message \in Messages :
        /\ step' = [op |-> "on_recv", message |-> message]
        /\ Commit(on_recv(Self, message))
        /\ acked' = (acked \/ IsRegisterAck(message))
        /\ closes' = IF IsRegisterAck(message) THEN 0 ELSE closes
    /\ UNCHANGED Static

(* QTimer.timeout -> on_retry_timer *)
Timeout ==
    /\ Running
    /\ timer_active
    /\ step' = [op |-> "on_retry_timer"]
    /\ Commit(on_retry_timer(Self))
    /\ UNCHANGED << Static, acked, closes >>

SendRoom == sends_valid < MaxSends /\ cm_writes < MaxSends

(* mcBasicLib.sig_input -> on_player_input *)
PlayerInput ==
    /\ Running
    /\ SendRoom
    /\ \E player \in Players, text \in Texts :
        /\ step' = [op |-> "on_player_input", player |-> player, text |-> text]
        /\ Commit(on_player_input(Self, player, text))
    /\ UNCHANGED << Static, acked, closes >>

(* mcBasicLib.sig_login -> on_player_login *)
PlayerLogin ==
    /\ Running
    /\ SendRoom
    /\ \E player \in {p \in Players : ~p.is_console} :
        /\ step' = [op |-> "on_player_login", player |-> player]
        /\ Commit(on_player_login(Self, player))
    /\ UNCHANGED << Static, acked, closes >>

(* mcBasicLib.sig_logout -> on_player_logout *)
PlayerLogout ==
    /\ Running
    /\ SendRoom
    /\ \E player \in {p \in Players : ~p.is_console} :
        /\ step' = [op |-> "on_player_logout", player |-> player]
        /\ Commit(on_player_logout(Self, player))
    /\ UNCHANGED << Static, acked, closes >>

(* mcBasicLib.sig_advancement -> on_advancement *)
Advancement ==
    /\ Running
    /\ SendRoom
    /\ \E advc \in Events :
        /\ step' = [op |-> "on_advancement", event |-> advc]
        /\ Commit(on_advancement(Self, advc))
    /\ UNCHANGED << Static, acked, closes >>

(* mcBasicLib.sig_death -> on_death *)
Death ==
    /\ Running
    /\ SendRoom
    /\ \E death_obj \in Events :
        /\ step' = [op |-> "on_death", event |-> death_obj]
        /\ Commit(on_death(Self, death_obj))
    /\ UNCHANGED << Static, acked, closes >>

Next ==
    \/ LoadFails
    \/ LoadDisabled
    \/ Load
    \/ Connected
    \/ Disconnected
    \/ TextMessageReceived
    \/ Timeout
    \/ PlayerInput
    \/ PlayerLogin
    \/ PlayerLogout
    \/ Advancement
    \/ Death

Spec == Init /\ [][Next]_vars

(* the event loop delivers the timeout of an active timer *)
LiveSpec == Spec /\ WF_vars(Timeout)

----------------------------------------------------------------------------
(* What a callback did, read off `out` *)

HasKind(o, k) == \E i \in 1..Len(o) : o[i].kind = k

WroteClientMessage(o) ==
    \E i \in 1..Len(o) : o[i].kind = "ws_send" /\ IsClientMessage(o[i].data)

LoggedWarning(o) == \E i \in 1..Len(o) : o[i].kind = "log" /\ o[i].level = "warning"

ToldAll(o, text) ==
    \E i \in 1..Len(o) : o[i].kind = "tell" /\ o[i].to = "@a" /\ o[i].text = text

SendOps == { "on_player_input", "on_player_login", "on_player_logout",
             "on_advancement", "on_death" }

AlwaysSendOps == SendOps \ { "on_player_input" }

IsReconnect(st) == st.op = "on_player_input" /\ st.text = CMD_CONNECT

----------------------------------------------------------------------------
(* C1: a client-message frame is written only by a call made while ws_valid
   is true; a send made in any other state writes nothing to the websocket
   and logs a warning; so the client-message writes never outnumber the
   send calls made while registered. *)
C1_SendOnlyWhenRegistered ==
    /\ [][ /\ WroteClientMessage(out') => ws_valid
           /\ (step'.op \in SendOps /\ ~ws_valid) => ~HasKind(out', "ws_send")
           /\ (step'.op \in AlwaysSendOps /\ ~ws_valid) => LoggedWarning(out')
         ]_vars
    /\ [](cm_writes <= sends_valid)

C1_Witness ==
    /\ step.op = "on_player_login"
    /\ sock = "unconnected"
    /\ LoggedWarning(out)
    /\ ~HasKind(out, "ws_send")
    /\ cm_writes = 1

(* C2: ws_valid is true exactly when a register-ack has been received since
   the last connected signal with no disconnected signal since; it is never
   true without an established socket, and it is false after every
   on_connection_broken. *)
C2_RegisteredIffAcked ==
    Running =>
        /\ ws_valid <=> acked
        /\ ws_valid => sock = "connected"
        /\ step.op = "on_connection_broken" => ~ws_valid

C2_Witness ==
    /\ ws_valid
    /\ acked
    /\ step.op = "on_recv"
    /\ timer_interval = 10000

(* C3: the stored retry interval, and every delay the timer is scheduled
   with, lies in [RETRY_INTERVAL_MIN, RETRY_INTERVAL_MAX]. *)
C3_IntervalInRange ==
    Running =>
        /\ RETRY_INTERVAL_MIN <= retry_interval
        /\ retry_interval <= RETRY_INTERVAL_MAX
        /\ (timer_active \/ step.op = "on_connection_broken") =>
              /\ RETRY_INTERVAL_MIN <= timer_interval
              /\ timer_interval <= RETRY_INTERVAL_MAX

C3_Witness ==
    /\ timer_active
    /\ timer_interval = RETRY_INTERVAL_MAX
    /\ retry_interval = RETRY_INTERVAL_MAX

(* C4: over consecutive disconnections with no register-ack between them the
   scheduled delay never decreases and never exceeds the maximum: each is
   the previous one doubled, capped at the maximum. *)
C4_BackoffMonotone ==
    [][ (step'.op = "on_connection_broken" /\ closes >= 1) =>
            /\ timer_interval' >= timer_interval
            /\ timer_interval' <= RETRY_INTERVAL_MAX
            /\ timer_interval' = min(RETRY_INTERVAL_MAX, 2 * timer_interval)
      ]_vars

C4_Witness ==
    /\ step.op = "on_connection_broken"
    /\ closes = 11
    /\ timer_interval = RETRY_INTERVAL_MAX

(* C5: the first disconnection after a register-ack schedules the timer with
   the minimum delay, whatever the interval was before the ack. *)
C5_AckResetsBackoff ==
    [][ (step'.op = "on_connection_broken" /\ acked) =>
            timer_interval' = RETRY_INTERVAL_MIN
      ]_vars

C5_Witness ==
    /\ step.op = "on_connection_broken"
    /\ closes = 1
    /\ timer_interval = RETRY_INTERVAL_MIN
    /\ sends_valid >= 1

(* C6: on every disconnection the delay in the logged and broadcast notice is
   the delay the timer is scheduled with, and only then the stored interval
   becomes min(max, 2 * delay); the first three disconnections without a
   registration schedule 5000, 10000, 20000. *)
C6_ReportThenAdvance ==
    Running =>
        /\ step.op = "on_connection_broken" =>
              /\ ToldAll(out, broken_notice(timer_interval))
              /\ timer_active
              /\ retry_interval = min(RETRY_INTERVAL_MAX, 2 * timer_interval)
        /\ closes = 1 => timer_interval = 5000
        /\ closes = 2 => timer_interval = 10000
        /\ closes = 3 => timer_interval = 20000

C6_Witness ==
    /\ step.op = "on_connection_broken"
    /\ closes = 3
    /\ ToldAll(out, << "multichat connection broken, retry after ",
                       "2", "0", "0", "0", "0", "ms" >>)
    /\ retry_interval = 40000

(* C7 as stated: start() opens the transport only when no attempt is in
   progress and no socket is open, so a retry-timer firing or a manual
   reconnect command issues no ws.open while the socket is connecting or
   connected. *)
C7_StartIdempotent ==
    [][ (step'.op \in {"on_retry_timer", "on_player_input"} /\ HasKind(out', "ws_open"))
            => sock = "unconnected"
      ]_vars

(* C7 amended: the manual reconnect command opens the transport exactly when
   ws_valid is false (also while an attempt is in progress or the socket is
   open and unregistered, where it restarts the attempt) and never while
   registered; no other chat input opens it; the retry timer fires only
   while the socket is unconnected, and then always opens it. *)
C7_ReconnectUnlessRegistered ==
    [][ /\ (step'.op = "on_player_input" /\ step'.text = CMD_CONNECT) =>
               (HasKind(out', "ws_open") <=> ~ws_valid)
        /\ (step'.op = "on_player_input" /\ step'.text # CMD_CONNECT) =>
               ~HasKind(out', "ws_open")
        /\ step'.op = "on_retry_timer" =>
               (HasKind(out', "ws_open") /\ sock = "unconnected")
        /\ HasKind(out', "ws_open") => ~ws_valid
      ]_vars

C7_Witness ==
    /\ IsReconnect(step)
    /\ HasKind(out, "ws_open")
    /\ sock = "connecting"
    /\ closes = 0
    /\ timer_interval = 0
    /\ ~acked

(* C8: the one retry timer is never rescheduled while it is still pending,
   every call of on_retry_timer (timer-driven or manual) leaves it stopped,
   and only a disconnection starts it again: one scheduling yields at most
   one timer-driven attempt. *)
C8_SingleShotPerCycle ==
    [][ /\ step'.op = "on_connection_broken" => (~timer_active /\ timer_active')
        /\ step'.op = "on_retry_timer" => (timer_active /\ ~timer_active')
        /\ (IsReconnect(step') /\ ~ws_valid) => ~timer_active'
        /\ (~timer_active /\ timer_active') => step'.op = "on_connection_broken"
      ]_vars

C8_Witness ==
    /\ step.op = "on_retry_timer"
    /\ ~timer_active
    /\ closes = 2
    /\ sock = "connecting"

(* C9: construction ends with a connection attempt; a running client that
   is unconnected always has its retry timer pending; and, the timeout of a
   pending timer being delivered, every unconnected state is followed by a
   new ws.open. *)
C9_RetriesForever ==
    /\ [](Running =>
            /\ step.op = "load" => (HasKind(out, "ws_open") /\ sock = "connecting")
            /\ sock = "unconnected" => timer_active)
    /\ (Running /\ sock = "unconnected") ~> (sock = "connecting" /\ HasKind(out, "ws_open"))

C9_Witness ==
    /\ step.op = "on_retry_timer"
    /\ sock = "connecting"
    /\ closes = MaxCloses
    /\ HasKind(out, "ws_open")

(* a frame the client has no use for: not JSON, not an object, no action,
   an unknown action, or a forwarding-message lacking a field *)
Discardable(message) ==
    \/ message.form # "json"
    \/ message.value.type # "object"
    \/ "action" \notin DOMAIN message.value.members
    \/ message.value.members["action"] \notin {"register-ack", "forwarding-message"}
    \/ /\ message.value.members["action"] = "forwarding-message"
       /\ ~({"source-client-name", "content"} \subseteq DOMAIN message.value.members)

(* C10: on_recv is total: for every discardable frame it returns without
   raising, changes neither ws_valid nor the retry interval, broadcasts
   nothing and writes nothing to the websocket. *)
C10_RecvTotal ==
    [][ (step'.op = "on_recv" /\ Discardable(step'.message)) =>
            /\ raised' = "none"
            /\ ws_valid' = ws_valid
            /\ retry_interval' = retry_interval
            /\ ~HasKind(out', "tell")
            /\ ~HasKind(out', "ws_send")
      ]_vars

CONNECTED_NOTICE == << "multichat: server connected" >>

(* C11: a register-ack received while ws_valid is already true is ignored:
   ws_valid stays true and no further "server connected" notice is
   broadcast, so at most one such notice is emitted per registration. *)
C11_ConnectedNoticeOnce ==
    [][ (step'.op = "on_recv" /\ IsRegisterAck(step'.message) /\ ws_valid) =>
            /\ ws_valid'
            /\ ~ToldAll(out', CONNECTED_NOTICE)
      ]_vars

Sends(o) == { i \in 1..Len(o) : o[i].kind = "ws_send" }

ExpectedClientName ==
    IF "server-name" \in DOMAIN config /\ config["server-name"] # << >>
    THEN << "M", "C", "-" >> \o config["server-name"]
    ELSE << "M", "C" >>

(* C12: on_connected writes exactly one frame, the register frame with
   client-name "MC-" + server_name (or "MC" when no name is configured) and
   the secret key, and leaves ws_valid false; on every connection the
   register frame is the first frame written and every later frame is a
   client-message. *)
C12_RegisterFirst ==
    Running =>
        /\ step.op = "on_connected" =>
              /\ Cardinality(Sends(out)) = 1
              /\ \A i \in Sends(out) :
                    out[i].data = JsonObject( "action" :> "register"
                                              @@ "client-name" :> ExpectedClientName
                                              @@ "secret-key" :> config["multichat-key"] )
              /\ ~ws_valid
              /\ wire = << "register" >>
        /\ wire # << >> =>
              /\ wire[1] = "register"
              /\ \A i \in 2..Len(wire) : wire[i] = "client-message"

C12_Witness ==
    /\ Len(wire) >= 2
    /\ wire[1] = "register"
    /\ wire[2] = "client-message"
    /\ server_name = << "S" >>
    /\ closes >= 1

(* send_msg was called: it either writes a client-message or logs its warning *)
SEND_WARNING == << "Tried to write websocket when not available" >>

LoggedSendWarning(o) ==
    \E i \in 1..Len(o) :
        o[i].kind = "log" /\ o[i].level = "warning" /\ o[i].text = SEND_WARNING

SendCalled(o) == WroteClientMessage(o) \/ LoggedSendWarning(o)

ClientMessage(content) == JsonObject("action" :> "client-message" @@ "content" :> content)

WroteExactly(o, data) ==
    /\ Cardinality(Sends(o)) = 1
    /\ \A i \in Sends(o) : o[i].data = data

Forwardable(st) ==
    /\ config["listen"]
    /\ ~st.player.is_console
    /\ \A i \in 1..Len(config["ignore-prefix"]) :
          ~startswith(st.text, config["ignore-prefix"][i])

BOB == << "B", "o", "b" >>

HELLO == << "h", "e", "l", "l", "o" >>

SECRET == << "!", "s", "e", "c", "r", "e", "t" >>

(* C13: a chat input other than the reconnect command is passed to send_msg,
   as "<name> text", exactly when listen is true, the player is not the
   console and the text starts with none of the ignored prefixes; otherwise
   nothing is sent.  With ignore-prefix ["!"], "!secret" is not forwarded
   and "hello" from Bob is written as content "<Bob> hello". *)
C13_ForwardFilter ==
    [][ (step'.op = "on_player_input" /\ step'.text # CMD_CONNECT) =>
            /\ SendCalled(out') <=> Forwardable(step')
            /\ ~Forwardable(step') => ~HasKind(out', "ws_send")
            /\ (Forwardable(step') /\ ws_valid) =>
                   WroteExactly(out', ClientMessage(<< "<" >> \o step'.player.name
                                                    \o << ">", " " >> \o step'.text))
            /\ (step'.text = SECRET /\ config["ignore-prefix"] = << << "!" >> >>) =>
                   ~SendCalled(out')
            /\ (step'.text = HELLO /\ step'.player.name = BOB /\ config["listen"]
                    /\ config["ignore-prefix"] = << << "!" >> >> /\ ws_valid) =>
                   WroteExactly(out', ClientMessage(<< "<", "B", "o", "b", ">", " ",
                                                       "h", "e", "l", "l", "o" >>))
      ]_vars

C13_Witness ==
    /\ step.op = "on_player_input"
    /\ step.text = HELLO
    /\ step.player.name = BOB
    /\ config["ignore-prefix"] = << << "!" >> >>
    /\ WroteExactly(out, ClientMessage(<< "<", "B", "o", "b", ">", " ",
                                          "h", "e", "l", "l", "o" >>))

ALREADY_NOTICE == << "multichat is already connected to server" >>

ToldPlayer(o, player, text) ==
    \E i \in 1..Len(o) : o[i].kind = "tell" /\ o[i].text = text /\ o[i].to = player.name

(* C14: the input "!multichat connect" is never passed to send_msg, in any
   state and under any configuration: while ws_valid is true it only tells
   the player that multichat is already connected and opens nothing; while
   ws_valid is false it starts a connection attempt. *)
C14_ReconnectNeverForwarded ==
    [][ IsReconnect(step') =>
            /\ ~SendCalled(out')
            /\ ~HasKind(out', "ws_send")
            /\ cm_writes' = cm_writes
            /\ ws_valid =>
                  /\ ToldPlayer(out', step'.player, ALREADY_NOTICE)
                  /\ ~HasKind(out', "ws_open")
                  /\ sock' = sock
            /\ ~ws_valid =>
                  /\ HasKind(out', "ws_open")
                  /\ sock' = "connecting"
                  /\ ~ToldPlayer(out', step'.player, ALREADY_NOTICE)
      ]_vars

C14_Witness ==
    /\ IsReconnect(step)
    /\ ws_valid
    /\ ~step.player.is_console
    /\ config["ignore-prefix"] = << >>
    /\ ToldPlayer(out, step.player, ALREADY_NOTICE)
    /\ ~HasKind(out, "ws_send")

IsForwarding(message) ==
    /\ message.form = "json"
    /\ message.value.type = "object"
    /\ {"action", "source-client-name", "content"} \subseteq DOMAIN message.value.members
    /\ message.value.members["action"] = "forwarding-message"

Tells(o) == { i \in 1..Len(o) : o[i].kind = "tell" }

BroadcastExactly(o, text) ==
    /\ Cardinality(Tells(o)) = 1
    /\ \A i \in Tells(o) : o[i].to = "@a" /\ o[i].text = text

(* C15: a forwarding-message frame with source-client-name s and content c
   is broadcast to local chat exactly once, as "[s]c", when post is true,
   and not at all when post is false; either way ws_valid and the retry
   interval are unchanged and nothing is written to the websocket. *)
C15_ForwardingPosted ==
    [][ (step'.op = "on_recv" /\ IsForwarding(step'.message)) =>
            /\ config["post"] =>
                  BroadcastExactly(out', << "[" >>
                      \o step'.message.value.members["source-client-name"]
                      \o << "]" >> \o step'.message.value.members["content"])
            /\ ~config["post"] => Tells(out') = {}
            /\ raised' = "none"
            /\ ws_valid' = ws_valid
            /\ retry_interval' = retry_interval
            /\ timer_active' = timer_active
            /\ sock' = sock
            /\ ~HasKind(out', "ws_send")
            /\ ~HasKind(out', "ws_open")
      ]_vars

C15_Witness ==
    /\ step.op = "on_recv"
    /\ IsForwarding(step.message)
    /\ step.message.value.members["source-client-name"] = << "H", "u", "b", "1" >>
    /\ step.message.value.members["content"] = << "h", "i" >>
    /\ config["post"]
    /\ BroadcastExactly(out, << "[", "H", "u", "b", "1", "]", "h", "i" >>)

(* the text a handler passes to send_msg *)
Payload(st) ==
    CASE st.op = "on_player_input" ->
            << "<" >> \o st.player.name \o << ">", " " >> \o st.text
      [] st.op = "on_player_login" ->
            st.player.name \o (IF lang = "en" THEN << " joined the game" >>
                               ELSE << "U+52A0 U+5165 U+4E86 U+6E38 U+620F" >>)
      [] st.op = "on_player_logout" ->
            st.player.name \o (IF lang = "en" THEN << " left the game" >>
                               ELSE << "U+9000 U+51FA U+4E86 U+6E38 U+620F" >>)
      [] st.op \in {"on_advancement", "on_death"} -> st.event[lang]

(* C16: nothing is queued: a client-message frame is written only during a
   send made while ws_valid is true, one frame per call, carrying that
   call's payload; a send made while ws_valid is false writes nothing, and
   no later callback (a registration included) writes a client-message on
   its behalf. *)
C16_NoQueueing ==
    [][ /\ WroteClientMessage(out') =>
               /\ step'.op \in SendOps
               /\ ws_valid
               /\ WroteExactly(out', ClientMessage(Payload(step')))
        /\ cm_writes' # cm_writes =>
               /\ step'.op \in SendOps
               /\ ws_valid
               /\ cm_writes' = cm_writes + 1
        /\ (step'.op \in SendOps /\ ~ws_valid) =>
               /\ cm_writes' = cm_writes
               /\ wire' \in {wire, << >>}
        /\ step'.op \notin SendOps => wire' \in {wire, << >>, << "register" >>}
      ]_vars

C16_Witness ==
    /\ step.op = "on_player_logout"
    /\ ~ws_valid
    /\ sock = "connected"
    /\ wire = << "register" >>
    /\ LoggedWarning(out)
    /\ cm_writes = 1

(* C17: when a required configuration key is missing, loading ends with the
   component disabled and a log entry, no exception leaves load(), and no
   transport open is attempted. *)
C17_MissingConfigDisables ==
    (MissingKey /\ step.op = "load") =>
        /\ status = "disabled"
        /\ raised = "none"
        /\ HasKind(out, "log")
        /\ ~HasKind(out, "ws_open")

(* C18: while the retry timer is pending the client is not registered. *)
C18_PendingTimerNotRegistered ==
    (Running /\ timer_active) => (~ws_valid /\ ~acked)

C18_Witness ==
    /\ timer_active
    /\ ~ws_valid
    /\ step.op = "on_player_login"
    /\ cm_writes = 1
    /\ closes = 1

Opens(o) == { i \in 1..Len(o) : o[i].kind = "ws_open" }

(* C19: a reconnect command given while the retry timer is pending stops the
   timer and issues exactly one ws.open, leaving the stored retry interval
   (and the timer's interval) as they were; the timer fires only while it
   is pending and the socket unconnected, so the cancelled timer brings no
   second attempt for the same disconnection. *)
C19_ManualReconnectCancelsRetry ==
    /\ [][ /\ (IsReconnect(step') /\ timer_active) =>
                  /\ ~ws_valid
                  /\ sock = "unconnected"
                  /\ ~timer_active'
                  /\ Cardinality(Opens(out')) = 1
                  /\ sock' = "connecting"
                  /\ retry_interval' = retry_interval
                  /\ timer_interval' = timer_interval
           /\ step'.op = "on_retry_timer" =>
                  /\ timer_active
                  /\ sock = "unconnected"
                  /\ ~IsReconnect(step)
         ]_vars
    /\ []((Running /\ timer_active) => sock = "unconnected")

C19_Witness ==
    /\ IsReconnect(step)
    /\ ~timer_active
    /\ sock = "connecting"
    /\ Cardinality(Opens(out)) = 1
    /\ closes = 1
    /\ timer_interval = 5000
    /\ retry_interval = 10000

ConnState == << ws_valid, retry_interval, timer_active, timer_interval, sock >>

(* C20: send_msg and the game-event handlers (chat input other than the
   reconnect command, login, logout, advancement, death) leave ws_valid, the
   retry interval, the retry timer and the socket as they were, whether the
   message is written or dropped; only construction, a disconnection, a
   register-ack and on_retry_timer (timer-driven or by the reconnect
   command) change them. *)
C20_SendFrame ==
    [][ /\ (step'.op \in SendOps /\ ~IsReconnect(step')) => ConnState' = ConnState
        /\ ConnState' # ConnState =>
               \/ step'.op \in {"load", "on_connected", "on_connection_broken", "on_retry_timer"}
               \/ IsReconnect(step')
               \/ step'.op = "on_recv" /\ IsRegisterAck(step'.message)
        /\ << ws_valid, retry_interval, timer_active, timer_interval >>'
              # << ws_valid, retry_interval, timer_active, timer_interval >> =>
               \/ step'.op \in {"load", "on_connection_broken", "on_retry_timer"}
               \/ IsReconnect(step')
               \/ step'.op = "on_recv" /\ IsRegisterAck(step'.message)
      ]_vars

C20_Witness ==
    /\ step.op = "on_death"
    /\ WroteClientMessage(out)
    /\ ws_valid
    /\ ~timer_active
    /\ timer_interval = 20000
    /\ retry_interval = RETRY_INTERVAL_MIN

====
